---- MODULE Spec2Model ----
(***************************************************************************)
(* PackStream string codec of neo4rs (src/types/string.rs): the encoder    *)
(* `impl TryInto<Bytes> for BoltString`, the decoder                       *)
(* `impl TryFrom<Rc<RefCell<Bytes>>> for BoltString` and `is_present`.     *)
(*                                                                         *)
(* Representation.                                                         *)
(*  - A usize is a record [hi, lo] standing for hi * 2^16 + lo, with       *)
(*    0 <= lo < 2^16: lengths around 2^32 do not fit the model checker's   *)
(*    integers.  The host is taken to be 64-bit (a usize can exceed        *)
(*    4_294_967_295, so the `_` arm of the encoder's match is reachable).  *)
(*  - A byte string (Bytes, BytesMut, the bytes of a String) is a          *)
(*    run-length sequence of runs [b |-> byte, n |-> usize count >= 1] in  *)
(*    which adjacent runs hold different bytes, so that two byte strings   *)
(*    are equal iff their representations are equal.                       *)
(*  - A String is the byte string of its UTF-8 encoding (as in Rust).      *)
(***************************************************************************)
EXTENDS Integers, Sequences, FiniteSets, TLC

VARIABLES
    self,       \* the BoltString the caller holds to encode: <<value>>, or <<>>
                \* when it holds none or has moved it into try_into
    input,      \* the shared cursor Rc<RefCell<Bytes>>: the bytes not yet read
    orig,       \* history: the cursor as it was constructed
    decoded,    \* history: the result of every try_from call so far, in order
    last        \* the last call made and what it returned

vars == <<self, input, orig, decoded, last>>

(***************************************************************************)
(* usize arithmetic                                                        *)
(***************************************************************************)
Base == 256 * 256

Usize(k) == [hi |-> k \div Base, lo |-> k % Base]

UAdd(x, y) ==
    LET s == x.lo + y.lo
    IN  [hi |-> x.hi + y.hi + (s \div Base), lo |-> s % Base]

ULe(x, y) == x.hi < y.hi \/ (x.hi = y.hi /\ x.lo <= y.lo)

ULt(x, y) == ULe(x, y) /\ x # y

\* x - y, for y <= x
USub(x, y) ==
    IF x.lo >= y.lo
    THEN [hi |-> x.hi - y.hi, lo |-> x.lo - y.lo]
    ELSE [hi |-> x.hi - y.hi - 1, lo |-> x.lo + Base - y.lo]

UZero == Usize(0)
UOne == Usize(1)

\* the numeric casts `as u8`, `as u16`, `as u32` of a usize (truncation)
AsU8(x) == x.lo % 256
AsU16(x) == x.lo
AsU32(x) == [hi |-> x.hi % Base, lo |-> x.lo]

\* the bit operators `|` and `&` on bytes
RECURSIVE BitOr(_, _)
BitOr(x, y) ==
    IF x = 0 /\ y = 0 THEN 0
    ELSE (IF x % 2 = 1 \/ y % 2 = 1 THEN 1 ELSE 0) + 2 * BitOr(x \div 2, y \div 2)

RECURSIVE BitAnd(_, _)
BitAnd(x, y) ==
    IF x = 0 \/ y = 0 THEN 0
    ELSE (IF x % 2 = 1 /\ y % 2 = 1 THEN 1 ELSE 0) + 2 * BitAnd(x \div 2, y \div 2)

(***************************************************************************)
(* Byte strings                                                            *)
(***************************************************************************)
Run(b, n) == [b |-> b, n |-> n]

\* b repeated n times (n a usize)
Repeat(b, n) == IF n = UZero THEN <<>> ELSE <<Run(b, n)>>

\* concatenation
Cat(x, y) ==
    IF x = <<>> THEN y
    ELSE IF y = <<>> THEN x
    ELSE IF x[Len(x)].b = y[1].b
         THEN SubSeq(x, 1, Len(x) - 1)
              \o <<Run(y[1].b, UAdd(x[Len(x)].n, y[1].n))>>
              \o Tail(y)
         ELSE x \o y

\* the byte string of an explicit sequence of bytes
RECURSIVE Str(_)
Str(s) == IF s = <<>> THEN <<>> ELSE Cat(Repeat(s[1], UOne), Str(Tail(s)))

\* number of bytes: Bytes::len, String::len, Buf::remaining
RECURSIVE ByteLen(_)
ByteLen(x) == IF x = <<>> THEN UZero ELSE UAdd(x[1].n, ByteLen(Tail(x)))

\* the first k bytes of x, for k <= ByteLen(x)
RECURSIVE Take(_, _)
Take(x, k) ==
    IF k = UZero \/ x = <<>> THEN <<>>
    ELSE IF ULe(x[1].n, k)
         THEN Cat(<<x[1]>>, Take(Tail(x), USub(k, x[1].n)))
         ELSE <<Run(x[1].b, k)>>

\* x without its first k bytes, for k <= ByteLen(x)
RECURSIVE Drop(_, _)
Drop(x, k) ==
    IF k = UZero \/ x = <<>> THEN x
    ELSE IF ULe(x[1].n, k)
         THEN Drop(Tail(x), USub(k, x[1].n))
         ELSE <<Run(x[1].b, USub(x[1].n, k))>> \o Tail(x)

(***************************************************************************)
(* Marker constants                                                        *)
(***************************************************************************)
TINY == 128
SMALL == 208
MEDIUM == 209
LARGE == 210

(***************************************************************************)
(* BufMut: what the encoder appends to its BytesMut                        *)
(***************************************************************************)
put_u8(bytes, v) == Cat(bytes, Repeat(v, UOne))

\* put_u16 writing the low byte first
put_u16_LittleEndian(bytes, v) == put_u8(put_u8(bytes, v % 256), v \div 256)

\* big-endian
put_u16(bytes, v) == put_u8(put_u8(bytes, v \div 256), v % 256)

\* big-endian; v is a u32 held as [hi, lo]
put_u32(bytes, v) == put_u16(put_u16(bytes, v.hi), v.lo)

put_slice(bytes, s) == Cat(bytes, s)

(***************************************************************************)
(* Encoder: impl TryInto<Bytes> for BoltString                             *)
(***************************************************************************)
InRange(len, lo, hi) == ULe(lo, len) /\ ULe(len, hi)

\* the literal 4_294_967_295 of the last range pattern
U32Max == [hi |-> Base - 1, lo |-> Base - 1]

\* the match with the first range pattern written 0..=16
Header_TinyTo16(len) ==
    IF InRange(len, Usize(0), Usize(16))
    THEN [ok |-> TRUE, bytes |-> put_u8(<<>>, BitOr(TINY, AsU8(len)))]
    ELSE IF InRange(len, Usize(17), Usize(255))
    THEN [ok |-> TRUE, bytes |-> put_u8(put_u8(<<>>, SMALL), AsU8(len))]
    ELSE IF InRange(len, Usize(256), Usize(65535))
    THEN [ok |-> TRUE, bytes |-> put_u16(put_u8(<<>>, MEDIUM), AsU16(len))]
    ELSE IF InRange(len, Usize(65536), U32Max)
    THEN [ok |-> TRUE, bytes |-> put_u32(put_u8(<<>>, LARGE), AsU32(len))]
    ELSE [ok |-> FALSE, bytes |-> <<>>]

\* the match with the last range pattern left open (65_536..) and no `_` arm
Header_NoOverflowArm(len) ==
    IF InRange(len, Usize(0), Usize(15))
    THEN [ok |-> TRUE, bytes |-> put_u8(<<>>, BitOr(TINY, AsU8(len)))]
    ELSE IF InRange(len, Usize(16), Usize(255))
    THEN [ok |-> TRUE, bytes |-> put_u8(put_u8(<<>>, SMALL), AsU8(len))]
    ELSE IF InRange(len, Usize(256), Usize(65535))
    THEN [ok |-> TRUE, bytes |-> put_u16(put_u8(<<>>, MEDIUM), AsU16(len))]
    ELSE [ok |-> TRUE, bytes |-> put_u32(put_u8(<<>>, LARGE), AsU32(len))]

\* the match on self.value.len(): the buffer after the marker and size field,
\* or the early return
Header(len) ==
    IF InRange(len, Usize(0), Usize(15))
    THEN [ok |-> TRUE, bytes |-> put_u8(<<>>, BitOr(TINY, AsU8(len)))]
    ELSE IF InRange(len, Usize(16), Usize(255))
    THEN [ok |-> TRUE, bytes |-> put_u8(put_u8(<<>>, SMALL), AsU8(len))]
    ELSE IF InRange(len, Usize(256), Usize(65535))
    THEN [ok |-> TRUE, bytes |-> put_u16(put_u8(<<>>, MEDIUM), AsU16(len))]
    ELSE IF InRange(len, Usize(65536), U32Max)
    THEN [ok |-> TRUE, bytes |-> put_u32(put_u8(<<>>, LARGE), AsU32(len))]
    ELSE [ok |-> FALSE, bytes |-> <<>>]

try_into(value) ==
    LET h == Header(ByteLen(value))
    IN  IF h.ok
        THEN [kind |-> "Ok", bytes |-> put_slice(h.bytes, value), err |-> ""]
        ELSE [kind |-> "Err", bytes |-> <<>>, err |-> "StringTooLong"]

(***************************************************************************)
(* Buf: what the decoder reads from the cursor.  Each read returns its     *)
(* value and the cursor after it, or panics and leaves the cursor as it    *)
(* was (the bytes crate asserts `remaining() >= size` before it advances). *)
(***************************************************************************)
remaining(buf) == ByteLen(buf)

\* the byte at offset k of the unread bytes, for k < remaining(buf)
ByteAt(buf, k) == Drop(buf, Usize(k))[1].b

get_u8(buf) ==
    IF ULt(remaining(buf), Usize(1))
    THEN [panic |-> TRUE, val |-> 0, rest |-> buf]
    ELSE [panic |-> FALSE, val |-> ByteAt(buf, 0), rest |-> Drop(buf, Usize(1))]

\* get_u16 reading the low byte first
get_u16_LittleEndian(buf) ==
    IF ULt(remaining(buf), Usize(2))
    THEN [panic |-> TRUE, val |-> 0, rest |-> buf]
    ELSE [panic |-> FALSE,
          val |-> ByteAt(buf, 0) + ByteAt(buf, 1) * 256,
          rest |-> Drop(buf, Usize(2))]

\* big-endian
get_u16(buf) ==
    IF ULt(remaining(buf), Usize(2))
    THEN [panic |-> TRUE, val |-> 0, rest |-> buf]
    ELSE [panic |-> FALSE,
          val |-> ByteAt(buf, 0) * 256 + ByteAt(buf, 1),
          rest |-> Drop(buf, Usize(2))]

\* big-endian; the value is a u32 held as [hi, lo]
get_u32(buf) ==
    IF ULt(remaining(buf), Usize(4))
    THEN [panic |-> TRUE, val |-> UZero, rest |-> buf]
    ELSE [panic |-> FALSE,
          val |-> [hi |-> ByteAt(buf, 0) * 256 + ByteAt(buf, 1),
                   lo |-> ByteAt(buf, 2) * 256 + ByteAt(buf, 3)],
          rest |-> Drop(buf, Usize(4))]

\* a copy of the first `at` bytes that leaves them in the buffer
split_to_NoAdvance(buf, at) ==
    IF ULt(ByteLen(buf), at)
    THEN [panic |-> TRUE, head |-> <<>>, rest |-> buf]
    ELSE [panic |-> FALSE, head |-> Take(buf, at), rest |-> buf]

\* Bytes::split_to(at): panics when at > len
split_to(buf, at) ==
    IF ULt(ByteLen(buf), at)
    THEN [panic |-> TRUE, head |-> <<>>, rest |-> buf]
    ELSE [panic |-> FALSE, head |-> Take(buf, at), rest |-> Drop(buf, at)]

(***************************************************************************)
(* String::from_utf8: the validation of the standard library, one byte at  *)
(* a time.  A state is the number of continuation bytes still owed and the *)
(* range the next one must lie in; need = -1 is the rejected state.        *)
(***************************************************************************)
Utf8Start == [need |-> 0, lo |-> 0, hi |-> 0]
Utf8Bad == [need |-> -1, lo |-> 0, hi |-> 0]

Utf8Step(s, b) ==
    IF s.need < 0 THEN Utf8Bad
    ELSE IF s.need = 0
    THEN IF b < 128 THEN Utf8Start
         ELSE IF b \in 194..223 THEN [need |-> 1, lo |-> 128, hi |-> 191]
         ELSE IF b = 224 THEN [need |-> 2, lo |-> 160, hi |-> 191]
         ELSE IF b \in 225..236 THEN [need |-> 2, lo |-> 128, hi |-> 191]
         ELSE IF b = 237 THEN [need |-> 2, lo |-> 128, hi |-> 159]
         ELSE IF b \in 238..239 THEN [need |-> 2, lo |-> 128, hi |-> 191]
         ELSE IF b = 240 THEN [need |-> 3, lo |-> 144, hi |-> 191]
         ELSE IF b \in 241..243 THEN [need |-> 3, lo |-> 128, hi |-> 191]
         ELSE IF b = 244 THEN [need |-> 3, lo |-> 128, hi |-> 143]
         ELSE Utf8Bad
    ELSE IF b \in s.lo..s.hi
         THEN IF s.need = 1 THEN Utf8Start
              ELSE [need |-> s.need - 1, lo |-> 128, hi |-> 191]
         ELSE Utf8Bad

RECURSIVE Utf8Steps(_, _, _)
Utf8Steps(s, b, k) == IF k = 0 THEN s ELSE Utf8Steps(Utf8Step(s, b), b, k - 1)

\* A run of n equal bytes: four steps decide it, since after four equal bytes
\* the state is Utf8Start (and stays there) or Utf8Bad.
RECURSIVE Utf8Run(_, _)
Utf8Run(s, x) ==
    IF x = <<>> THEN s
    ELSE Utf8Run(Utf8Steps(s, x[1].b, IF ULe(x[1].n, Usize(4)) THEN x[1].n.lo ELSE 4),
                 Tail(x))

\* the diagnostic text of the Utf8Error is not modelled
from_utf8(vec) ==
    IF Utf8Run(Utf8Start, vec) = Utf8Start
    THEN [ok |-> TRUE, value |-> vec]
    ELSE [ok |-> FALSE, value |-> <<>>]

(***************************************************************************)
(* format!("invalid string marker {}", marker): the decimal digits of the  *)
(* byte after the fixed text                                               *)
(***************************************************************************)
DigitChar(d) == <<"0", "1", "2", "3", "4", "5", "6", "7", "8", "9">>[d + 1]

RECURSIVE Decimal(_)
Decimal(k) ==
    IF k < 10 THEN <<DigitChar(k)>> ELSE Decimal(k \div 10) \o <<DigitChar(k % 10)>>

MarkerDetail(marker) == <<"invalid string marker ">> \o Decimal(marker)

(***************************************************************************)
(* Decoder: impl TryFrom<Rc<RefCell<Bytes>>> for BoltString                *)
(* A result is [kind, value, err, detail, input]: kind is "Ok", "Err" or   *)
(* "panic", and input is the cursor the call leaves behind.                *)
(***************************************************************************)
Panic(buf) ==
    [kind |-> "panic", value |-> <<>>, err |-> "", detail |-> <<>>, input |-> buf]

Failure(e, d, buf) ==
    [kind |-> "Err", value |-> <<>>, err |-> e, detail |-> d, input |-> buf]

Success(v, buf) ==
    [kind |-> "Ok", value |-> v, err |-> "", detail |-> <<>>, input |-> buf]

\* a size field read, `as usize`: the declared length and the cursor after
\* the size field, or the panic of the read
SizeField(g, length) ==
    [kind |-> IF g.panic THEN "panic" ELSE "Ok", length |-> length, rest |-> g.rest]

\* the two-byte size field cast `as u8`
SizeU16_Truncated(g) == SizeField(g, Usize(g.val % 256))

SizeU8(g) == SizeField(g, Usize(g.val))
SizeU16(g) == SizeField(g, Usize(g.val))
SizeU32(g) == SizeField(g, g.val)

\* the match with the first range pattern written 0x80..=0x90
MatchMarker_TinyTo0x90(marker, buf) ==
    IF marker \in 128..144
    THEN [kind |-> "Ok", length |-> Usize(BitAnd(15, marker)), rest |-> buf]
    ELSE IF marker = SMALL THEN SizeU8(get_u8(buf))
    ELSE IF marker = MEDIUM THEN SizeU16(get_u16(buf))
    ELSE IF marker = LARGE THEN SizeU32(get_u32(buf))
    ELSE [kind |-> "Err", length |-> UZero, rest |-> buf]

\* the match on the marker: the declared length, a panic of the read, or no
\* match
MatchMarker(marker, buf) ==
    IF marker \in 128..143
    THEN [kind |-> "Ok", length |-> Usize(BitAnd(15, marker)), rest |-> buf]
    ELSE IF marker = SMALL THEN SizeU8(get_u8(buf))
    ELSE IF marker = MEDIUM THEN SizeU16(get_u16(buf))
    ELSE IF marker = LARGE THEN SizeU32(get_u32(buf))
    ELSE [kind |-> "Err", length |-> UZero, rest |-> buf]

\* String::from_utf8(byte_array).map_err(..)? and Ok(string_value.into())
Validated(u, buf) ==
    IF u.ok THEN Success(u.value, buf)
    ELSE Failure("DeserializationError", <<"Utf8Error">>, buf)

\* the payload taken for text without validation (String::from_utf8_unchecked)
Payload_Unchecked(s) ==
    IF s.panic THEN Panic(s.rest) ELSE Success(s.head, s.rest)

\* input.split_to(length).to_vec() and what follows it
Payload(s) ==
    IF s.panic THEN Panic(s.rest) ELSE Validated(from_utf8(s.head), s.rest)

\* the outcome of the match, and what follows it
Matched(marker, l) ==
    IF l.kind = "panic" THEN Panic(l.rest)
    ELSE IF l.kind = "Err"
    THEN Failure("InvalidTypeMarker", MarkerDetail(marker), l.rest)
    ELSE Payload(split_to(l.rest, l.length))

\* input.get_u8() and what follows it
Marked(m) ==
    IF m.panic THEN Panic(m.rest) ELSE Matched(m.val, MatchMarker(m.val, m.rest))

try_from(buf) == Marked(get_u8(buf))

(***************************************************************************)
(* is_present                                                              *)
(***************************************************************************)
\* is_present with the half-open range TINY..(TINY | 0x0F)
is_present_HalfOpen(buf) ==
    IF buf = <<>> THEN [kind |-> "panic", value |-> FALSE]
    ELSE LET marker == buf[1].b
         IN  [kind |-> "Ok",
              value |-> \/ marker \in TINY..(BitOr(TINY, 15) - 1)
                        \/ marker = SMALL
                        \/ marker = MEDIUM
                        \/ marker = LARGE]

\* input.borrow()[0] panics on an empty buffer; the cursor is only borrowed
is_present(buf) ==
    IF buf = <<>> THEN [kind |-> "panic", value |-> FALSE]
    ELSE LET marker == buf[1].b
         IN  [kind |-> "Ok",
              value |-> \/ marker \in TINY..BitOr(TINY, 15)
                        \/ marker = SMALL
                        \/ marker = MEDIUM
                        \/ marker = LARGE]

(***************************************************************************)
(* Inputs                                                                  *)
(***************************************************************************)
\* how far past each class boundary the lengths of the texts go
Slack == 1
\* how many bytes follow the first byte of an arbitrary buffer
MaxRaw == 3
\* how many encoded values one cursor holds; a run makes one try_from call more
MaxFrames == 2

\* the last length of each size class, and the bytes 'a', 0xC3 0xA9 (e-acute),
\* 0xE2 0x82 0xAC (euro sign), 0xF0 0x9F 0x98 0x80 (an emoji)
BoundaryLens == {Usize(0), Usize(15), Usize(255), Usize(65535), U32Max}

TextLens == {UAdd(b, Usize(d)) : b \in BoundaryLens, d \in 0..Slack}

\* the text values handed to BoltString::new: well-formed UTF-8, among them
\* texts whose byte length is not their character count and texts too long
\* for any class (one of them 2^32 + 16 bytes long)
Texts ==
    {Repeat(97, n) : n \in TextLens}
    \cup {Str(<<195, 169>>), Str(<<226, 130, 172>>), Str(<<240, 159, 152, 128>>),
          Cat(Repeat(97, Usize(14)), Str(<<195, 169>>)),
          Cat(Repeat(97, Usize(254)), Str(<<195, 169>>)),
          Repeat(97, UAdd(UAdd(U32Max, UOne), Usize(16)))}

\* the texts whose encodings are concatenated on one cursor
SeqTexts ==
    {<<>>, Str(<<97>>), Str(<<195, 169>>), Repeat(97, Usize(16)),
     Repeat(98, Usize(256)), Repeat(97, Usize(65536))}

RECURSIVE Seqs(_, _)
Seqs(S, k) ==
    IF k = 0 THEN {<<>>}
    ELSE LET shorter == Seqs(S, k - 1)
         IN  shorter \cup {Append(q, e) : q \in shorter, e \in S}

\* encode(v1) ++ ... ++ encode(vk)
RECURSIVE Stream(_)
Stream(vs) ==
    IF vs = <<>> THEN <<>> ELSE Cat(try_into(vs[1]).bytes, Stream(Tail(vs)))

\* what encoding each text gives
Encodings == [v \in Texts |-> try_into(v)]

\* the sequences of texts encoded onto one cursor, and the cursors
FrameSeqs == Seqs(SeqTexts, MaxFrames)
Streams == [vs \in FrameSeqs |-> Stream(vs)]

EncodedInputs ==
    {Encodings[v].bytes : v \in {t \in Texts : Encodings[t].kind = "Ok"}}
    \cup {Streams[vs] : vs \in FrameSeqs}

\* arbitrary buffers: a first byte around every marker range, then a few bytes
FirstBytes == {0, 97, 127, 128, 129, 130, 143, 144, 207, 208, 209, 210, 211, 255}
TailBytes == {0, 1, 2, 97, 192}

RawInputs ==
    {<<>>} \cup {Str(<<m>> \o t) : m \in FirstBytes, t \in Seqs(TailBytes, MaxRaw)}

\* hand-made frames: any marker with any declared length it can carry, before
\* a payload that may be shorter or longer than declared, or no UTF-8
DeclaredLens ==
    {Usize(0), Usize(1), Usize(2), Usize(3), Usize(4), Usize(15), Usize(16),
     Usize(255), Usize(256), Usize(65535), Usize(65536), U32Max}

Payloads ==
    {<<>>, Str(<<97>>), Str(<<97, 98>>), Str(<<192>>), Str(<<195>>), Str(<<195, 169>>),
     Str(<<226, 130>>), Str(<<226, 130, 172>>), Str(<<237, 160, 128>>),
     Str(<<240, 159, 152, 128>>), Str(<<97, 128>>), Str(<<97, 0, 208>>),
     Repeat(97, Usize(15)), Repeat(97, Usize(16)), Repeat(97, Usize(17)),
     Repeat(97, Usize(255)), Repeat(97, Usize(256)),
     Cat(Repeat(97, Usize(255)), Str(<<192>>)),
     Repeat(97, Usize(65535)), Repeat(97, Usize(65536)), Repeat(97, U32Max)}

FrameHeader(marker, n) ==
    IF marker = SMALL THEN put_u8(put_u8(<<>>, SMALL), AsU8(n))
    ELSE IF marker = MEDIUM THEN put_u16(put_u8(<<>>, MEDIUM), AsU16(n))
    ELSE IF marker = LARGE THEN put_u32(put_u8(<<>>, LARGE), AsU32(n))
    ELSE put_u8(<<>>, TINY + AsU8(n))

Carries(marker, n) ==
    IF marker = SMALL THEN ULe(n, Usize(255))
    ELSE IF marker = MEDIUM THEN ULe(n, Usize(65535))
    ELSE IF marker = LARGE THEN ULe(n, U32Max)
    ELSE ULe(n, Usize(15))

FrameInputs ==
    {Cat(FrameHeader(mn[1], mn[2]), p) :
        mn \in {x \in {TINY, SMALL, MEDIUM, LARGE} \X DeclaredLens : Carries(x[1], x[2])},
        p \in Payloads}

(***************************************************************************)
(* The state machine: a caller that holds either a BoltString to encode or *)
(* a cursor to decode (as each test of the source does), and calls the     *)
(* public operations on it in any order.  A panic ends the run.  Nothing   *)
(* else borrows the RefCell while a call runs, so borrow and borrow_mut    *)
(* succeed.                                                                *)
(***************************************************************************)
NoCall == [op |-> "none", arg |-> <<>>, res |-> [kind |-> "none"]]

Panicked == last.res.kind = "panic"

Init ==
    /\ \/ /\ self = <<>>
          /\ input \in EncodedInputs \cup RawInputs \cup FrameInputs
       \/ /\ self \in {<<v>> : v \in Texts}
          /\ input = <<>>
    /\ orig = input
    /\ decoded = <<>>
    /\ last = NoCall

TryFrom ==
    /\ ~Panicked
    /\ Len(decoded) <= MaxFrames
    /\ LET r == try_from(input)
       IN  /\ input' = r.input
           /\ decoded' = Append(decoded, r)
           /\ last' = [op |-> "try_from", arg |-> input, res |-> r]
    /\ UNCHANGED <<self, orig>>

IsPresent ==
    /\ ~Panicked
    /\ last' = [op |-> "is_present", arg |-> input, res |-> is_present(input)]
    /\ UNCHANGED <<self, input, orig, decoded>>

TryInto ==
    /\ ~Panicked
    /\ self # <<>>
    /\ last' = [op |-> "try_into", arg |-> self[1], res |-> try_into(self[1])]
    /\ self' = <<>>
    /\ UNCHANGED <<input, orig, decoded>>

Next == TryFrom \/ IsPresent \/ TryInto

Spec == Init /\ [][Next]_vars

(***************************************************************************)
(* The wire format as the specification states it, for the properties      *)
(***************************************************************************)
First(buf) == buf[1].b

Recognized(m) == m \in 128..143 \/ m \in {208, 209, 210}

\* the width of the size field that follows marker m
FieldWidth(m) == IF m = 208 THEN 1 ELSE IF m = 209 THEN 2 ELSE IF m = 210 THEN 4 ELSE 0

\* the narrowest size field that can hold the length len (at most U32Max)
MinWidth(len) ==
    IF ULe(len, Usize(15)) THEN 0
    ELSE IF ULe(len, Usize(255)) THEN 1
    ELSE IF ULe(len, Usize(65535)) THEN 2
    ELSE 4

\* the big-endian unsigned value of the first w bytes of f (w is 1, 2 or 4)
BigEndian(f, w) ==
    IF w = 1 THEN Usize(ByteAt(f, 0))
    ELSE IF w = 2 THEN Usize(256 * ByteAt(f, 0) + ByteAt(f, 1))
    ELSE [hi |-> 256 * ByteAt(f, 0) + ByteAt(f, 1),
          lo |-> 256 * ByteAt(f, 2) + ByteAt(f, 3)]

\* a buffer that starts with a recognized marker and its whole size field
HasSizeField(buf) ==
    /\ buf # <<>>
    /\ Recognized(First(buf))
    /\ ULe(Usize(1 + FieldWidth(First(buf))), ByteLen(buf))

\* the length such a buffer declares
Declared(buf) ==
    IF FieldWidth(First(buf)) = 0 THEN Usize(First(buf) % 16)
    ELSE BigEndian(Drop(buf, Usize(1)), FieldWidth(First(buf)))

\* marker, size field and declared length together
FrameLen(buf) == UAdd(Usize(1 + FieldWidth(First(buf))), Declared(buf))

\* a buffer that starts with a whole frame
HasFrame(buf) == HasSizeField(buf) /\ ULe(FrameLen(buf), ByteLen(buf))

FramePayload(buf) == Take(Drop(buf, Usize(1 + FieldWidth(First(buf)))), Declared(buf))

\* a buffer that runs out: empty, or too short for the size field or for the
\* declared length
Underflows(buf) ==
    \/ buf = <<>>
    \/ Recognized(First(buf)) /\ ~HasFrame(buf)

\* well-formed UTF-8 (Unicode, table 3-7) of an explicit sequence of bytes
Cont(b) == b \in 128..191

Scalar(q) ==
    \/ Len(q) = 1 /\ q[1] \in 0..127
    \/ Len(q) = 2 /\ q[1] \in 194..223 /\ Cont(q[2])
    \/ /\ Len(q) = 3
       /\ \/ q[1] = 224 /\ q[2] \in 160..191
          \/ q[1] \in 225..236 /\ Cont(q[2])
          \/ q[1] = 237 /\ q[2] \in 128..159
          \/ q[1] \in 238..239 /\ Cont(q[2])
       /\ Cont(q[3])
    \/ /\ Len(q) = 4
       /\ \/ q[1] = 240 /\ q[2] \in 144..191
          \/ q[1] \in 241..243 /\ Cont(q[2])
          \/ q[1] = 244 /\ q[2] \in 128..143
       /\ Cont(q[3])
       /\ Cont(q[4])

RECURSIVE WellFormedSeq(_)
WellFormedSeq(q) ==
    \/ q = <<>>
    \/ \E k \in 1..(IF Len(q) < 4 THEN Len(q) ELSE 4) :
          /\ Scalar(SubSeq(q, 1, k))
          /\ WellFormedSeq(SubSeq(q, k + 1, Len(q)))

\* The bytes of a byte string, one by one.  A run of one ASCII byte is cut to
\* a single byte (each is a scalar of its own), and a longer run of any other
\* byte to five (no scalar holds more than three equal bytes in a row, so
\* five are as ill-formed as more): neither changes well-formedness.
RECURSIVE Bytewise(_)
Bytewise(x) ==
    IF x = <<>> THEN <<>>
    ELSE [i \in 1..(IF x[1].b < 128 THEN 1
                    ELSE IF ULe(x[1].n, Usize(5)) THEN x[1].n.lo ELSE 5) |-> x[1].b]
         \o Bytewise(Tail(x))

WellFormed(x) == WellFormedSeq(Bytewise(x))

\* the number a sequence of decimal digit characters writes
DigitValue(c) ==
    CASE c = "0" -> 0 [] c = "1" -> 1 [] c = "2" -> 2 [] c = "3" -> 3 [] c = "4" -> 4
      [] c = "5" -> 5 [] c = "6" -> 6 [] c = "7" -> 7 [] c = "8" -> 8 [] c = "9" -> 9

RECURSIVE DecimalValue(_)
DecimalValue(ds) ==
    IF ds = <<>> THEN 0
    ELSE 10 * DecimalValue(SubSeq(ds, 1, Len(ds) - 1)) + DigitValue(ds[Len(ds)])

Encoded == last.op = "try_into"
Decoded == last.op = "try_from"
Probed == last.op = "is_present"

(***************************************************************************)
(* Properties of the encoder                                               *)
(***************************************************************************)
\* the size field of an encoder output: what lies between its first byte and
\* the text
OutWidth(out, text) == USub(USub(ByteLen(out), Usize(1)), ByteLen(text))

\* C2: size-class selection is exact and minimal.  A text of byte length L
\* is encoded with first byte 0x80 + L for L <= 15, 0xD0 for 16..255, 0xD1 for
\* 256..65535 and 0xD2 for 65536..4294967295, and its size field is the
\* narrowest that holds L.
C2_SizeClass ==
    Encoded /\ ULe(ByteLen(last.arg), U32Max) =>
        LET L == ByteLen(last.arg)
            out == last.res.bytes
        IN  /\ last.res.kind = "Ok"
            /\ out # <<>>
            /\ ULe(L, Usize(15)) => First(out) = 128 + L.lo
            /\ InRange(L, Usize(16), Usize(255)) => First(out) = 208
            /\ InRange(L, Usize(256), Usize(65535)) => First(out) = 209
            /\ InRange(L, Usize(65536), U32Max) => First(out) = 210
            /\ OutWidth(out, last.arg) = Usize(MinWidth(L))
            /\ FieldWidth(First(out)) = MinWidth(L)

\* a 65536-byte text was encoded with the Large marker
C2_Witness ==
    /\ Encoded
    /\ ByteLen(last.arg) = Usize(65536)
    /\ last.res.kind = "Ok"
    /\ First(last.res.bytes) = 210

\* C3: wire layout.  A successful encode of a text of byte length L is the
\* marker byte, then a size field of 0, 1, 2 or 4 bytes whose big-endian
\* value is L (for Tiny the low 4 bits of the marker are L), then the bytes
\* of the text unchanged, and nothing more: 1 + width + L bytes in all.
C3_WireLayout ==
    Encoded /\ last.res.kind = "Ok" =>
        LET L == ByteLen(last.arg)
            out == last.res.bytes
        IN  /\ HasFrame(out)
            /\ Declared(out) = L
            /\ FramePayload(out) = last.arg
            /\ Drop(out, Usize(1 + FieldWidth(First(out)))) = last.arg
            /\ ByteLen(out) = UAdd(Usize(1 + FieldWidth(First(out))), L)

\* a 256-byte text holding a two-byte character was encoded
C3_Witness ==
    /\ Encoded
    /\ last.res.kind = "Ok"
    /\ ByteLen(last.arg) = Usize(256)
    /\ Len(last.arg) > 1
    /\ First(last.res.bytes) = 209

\* C8: length overflow.  A text longer than 4294967295 bytes is refused with
\* StringTooLong and no bytes are returned; a text of at most that length is
\* encoded, and the length its size field holds is its real length.
C8_LengthOverflow ==
    Encoded =>
        LET L == ByteLen(last.arg)
        IN  IF ULe(L, U32Max)
            THEN /\ last.res.kind = "Ok"
                 /\ HasSizeField(last.res.bytes)
                 /\ Declared(last.res.bytes) = L
            ELSE /\ last.res.kind = "Err"
                 /\ last.res.err = "StringTooLong"
                 /\ last.res.bytes = <<>>

\* a text of 2^32 + 16 bytes, whose length cut to 32 bits is 16, was refused
C8_Witness ==
    /\ Encoded
    /\ ByteLen(last.arg) = UAdd(UAdd(U32Max, Usize(1)), Usize(16))
    /\ last.res.kind = "Err"
    /\ last.res.err = "StringTooLong"

(***************************************************************************)
(* Properties of the decoder and of is_present                             *)
(***************************************************************************)
\* C1: round trip.  Every text of at most 4294967295 bytes is encoded, and
\* the first decode of a cursor that holds exactly its encoding succeeds and
\* returns the text.
C1_RoundTrip ==
    \A v \in Texts :
        ULe(ByteLen(v), U32Max) =>
            /\ Encodings[v].kind = "Ok"
            /\ orig = Encodings[v].bytes /\ Len(decoded) >= 1 =>
                   /\ decoded[1].kind = "Ok"
                   /\ decoded[1].value = v

\* the 16-byte, 15-character text was decoded from its encoding
C1_Witness ==
    /\ orig = Encodings[Cat(Repeat(97, Usize(14)), Str(<<195, 169>>))].bytes
    /\ Len(decoded) = 1
    /\ decoded[1].kind = "Ok"
    /\ ByteLen(decoded[1].value) = Usize(16)

\* C4: cursor underflow is reported as an error value.  A decode of a cursor
\* that is empty, or shorter than the size field its marker asks for, or
\* shorter than the declared length, returns an error that is neither
\* InvalidTypeMarker nor DeserializationError; it does not panic and returns
\* no text.
C4_UnderflowIsError ==
    Decoded /\ Underflows(last.arg) =>
        /\ last.res.kind = "Err"
        /\ last.res.err \notin {"InvalidTypeMarker", "DeserializationError"}

\* C5: marker rejection.  A decode of a non-empty cursor whose first byte is
\* no string marker fails with InvalidTypeMarker, whose detail writes that
\* byte's value, and leaves the cursor exactly one byte further: the bytes
\* after the marker are unread and unchanged.
C5_MarkerRejection ==
    Decoded /\ last.arg # <<>> /\ ~Recognized(First(last.arg)) =>
        /\ last.res.kind = "Err"
        /\ last.res.err = "InvalidTypeMarker"
        /\ Head(last.res.detail) = "invalid string marker "
        /\ DecimalValue(Tail(last.res.detail)) = First(last.arg)
        /\ input = Drop(last.arg, Usize(1))
        /\ Cat(Str(<<First(last.arg)>>), input) = last.arg

\* the byte 0x90, just past the tiny markers, was rejected with bytes after it
C5_Witness ==
    /\ Decoded
    /\ ULe(Usize(2), ByteLen(last.arg))
    /\ First(last.arg) = 144
    /\ last.res.err = "InvalidTypeMarker"
    /\ input # <<>>

\* C6: type-presence predicate.  On a cursor with at least one unread byte,
\* is_present is true iff that byte is in 0x80..0x8F or is 0xD0, 0xD1 or
\* 0xD2, it leaves the cursor as it was, and it is true exactly when a
\* decode of that cursor does not fail with InvalidTypeMarker.
C6_IsPresent ==
    Probed /\ last.arg # <<>> =>
        /\ last.res.kind = "Ok"
        /\ last.res.value = Recognized(First(last.arg))
        /\ input = last.arg
        /\ last.res.value =
               ~(try_from(input).kind = "Err" /\ try_from(input).err = "InvalidTypeMarker")

\* is_present answered true on the last tiny marker, 0x8F
C6_Witness ==
    /\ Probed
    /\ last.arg # <<>>
    /\ First(last.arg) = 143
    /\ last.res.value = TRUE

\* C7: invalid UTF-8 rejection.  A decode of a cursor that starts with a
\* whole frame (recognized marker, whole size field, whole payload) fails
\* with DeserializationError when the payload is not well-formed UTF-8, and
\* otherwise succeeds and returns exactly the payload bytes.
C7_InvalidUtf8 ==
    Decoded /\ HasFrame(last.arg) =>
        IF WellFormed(FramePayload(last.arg))
        THEN /\ last.res.kind = "Ok"
             /\ last.res.value = FramePayload(last.arg)
        ELSE /\ last.res.kind = "Err"
             /\ last.res.err = "DeserializationError"

\* the frame [0x81, 0xC0] was refused
C7_Witness ==
    /\ Decoded
    /\ last.arg = Str(<<129, 192>>)
    /\ last.res.kind = "Err"
    /\ last.res.err = "DeserializationError"

\* C9: the decoder accepts every size class for every length.  The declared
\* length is the low 4 bits of a tiny marker, or the 1, 2 or 4 big-endian
\* bytes after 0xD0, 0xD1, 0xD2, and a decode returns the next `length` bytes
\* (when they are text) whether or not a narrower class could hold that
\* length; encoding the decoded text gives back the frame iff the frame was
\* minimally encoded.
C9_AnyClassAnyLength ==
    Decoded /\ HasFrame(last.arg) /\ WellFormed(FramePayload(last.arg)) =>
        /\ last.res.kind = "Ok"
        /\ ByteLen(last.res.value) = Declared(last.arg)
        /\ last.res.value = FramePayload(last.arg)
        /\ try_into(last.res.value).kind = "Ok"
        /\ (try_into(last.res.value).bytes = Take(last.arg, FrameLen(last.arg)))
               = (FieldWidth(First(last.arg)) = MinWidth(Declared(last.arg)))

\* [0xD2, 0, 0, 0, 1, 0x61] was decoded to "a", which encodes to another frame
C9_Witness ==
    /\ Decoded
    /\ last.arg = Str(<<210, 0, 0, 0, 1, 97>>)
    /\ last.res.kind = "Ok"
    /\ last.res.value = Str(<<97>>)
    /\ try_into(last.res.value).bytes # last.arg

\* C10: exact cursor consumption.  A successful decode leaves the cursor
\* exactly 1 + size-field width + declared length bytes further, the later
\* bytes unchanged; and on a cursor that holds encode(v1) ++ ... ++
\* encode(vk), the first j decodes (j <= k) return v1 .. vj in order and leave
\* encode(v(j+1)) ++ ... ++ encode(vk), so that k decodes leave it empty.
C10_ExactConsumption ==
    /\ Decoded /\ last.res.kind = "Ok" =>
           /\ HasFrame(last.arg)
           /\ input = Drop(last.arg, FrameLen(last.arg))
           /\ Cat(Take(last.arg, FrameLen(last.arg)), input) = last.arg
    /\ \A vs \in FrameSeqs :
           orig = Streams[vs] /\ Len(decoded) <= Len(vs) =>
               /\ \A i \in 1..Len(decoded) :
                      decoded[i].kind = "Ok" /\ decoded[i].value = vs[i]
               /\ input = Stream(SubSeq(vs, Len(decoded) + 1, Len(vs)))
               /\ Len(decoded) = Len(vs) => input = <<>>

\* two values of different size classes were decoded in order from one cursor
C10_Witness ==
    /\ orig = Streams[<<Repeat(97, Usize(16)), Str(<<195, 169>>)>>]
    /\ Len(decoded) = 2
    /\ decoded[1].value = Repeat(97, Usize(16))
    /\ decoded[2].value = Str(<<195, 169>>)
    /\ input = <<>>

====
